---- MODULE Spec2Model ----
(***************************************************************************)
(* Bill line-item extraction (src/src/pipelines.py, src/src/app.py).       *)
(*                                                                         *)
(* OCR tokens are grouped into rows (assemble_rows), the header row and    *)
(* the column boundaries are detected (detect_header_and_boundaries), the  *)
(* rows after the header are turned into line items (extract_items) and    *)
(* the result is wrapped in the response envelope                          *)
(* (extract_bill_info_from_url, extract_data).                             *)
(*                                                                         *)
(* Representation.  Text is a TLA+ string, read character by character     *)
(* with SubSeq.  An optional value (Python None or a value) is a sequence  *)
(* of length 0 or 1.  A Python float is held as an integer number of       *)
(* hundredths (2.0 is 200, 100.00 is 10000); the token alphabet below has  *)
(* at most two fractional digits, so the representation is exact.  A       *)
(* column boundary (xs[k] + xs[k+1]) / 2 is held doubled, as               *)
(* xs[k] + xs[k+1], and an x is compared with it as 2 * x.                 *)
(***************************************************************************)
EXTENDS Integers, Sequences, FiniteSets, TLC

VARIABLES pc, entry, ocr, y_gap, i, rows, current, last_top,
          header_idx, boundaries, k, items, response

vars == <<pc, entry, ocr, y_gap, i, rows, current, last_top,
          header_idx, boundaries, k, items, response>>

(***************************************************************************)
(* Optional values.                                                        *)
(***************************************************************************)
None == <<>>

Some(v) == <<v>>

Val(o) == o[1]

(***************************************************************************)
(* Python string operations.                                               *)
(***************************************************************************)
Char(s, n) == SubSeq(s, n, n)

Digits == {"0", "1", "2", "3", "4", "5", "6", "7", "8", "9"}

IsSpace(c) == c \in {" ", "\t", "\n"}

SetMin(S) == CHOOSE m \in S : \A n \in S : m <= n

SetMax(S) == CHOOSE m \in S : \A n \in S : m >= n

\* str.strip()
Strip(s) ==
  LET keep == {n \in 1..Len(s) : ~IsSpace(Char(s, n))}
  IN  IF keep = {} THEN "" ELSE SubSeq(s, SetMin(keep), SetMax(keep))

UpperToLower ==
  [A |-> "a", B |-> "b", C |-> "c", D |-> "d", E |-> "e", F |-> "f",
   G |-> "g", H |-> "h", I |-> "i", J |-> "j", K |-> "k", L |-> "l",
   M |-> "m", N |-> "n", O |-> "o", P |-> "p", Q |-> "q", R |-> "r",
   S |-> "s", T |-> "t", U |-> "u", V |-> "v", W |-> "w", X |-> "x",
   Y |-> "y", Z |-> "z"]

LowerChar(c) == IF c \in DOMAIN UpperToLower THEN UpperToLower[c] ELSE c

\* str.lower()
RECURSIVE Lower(_)
Lower(s) == IF s = "" THEN "" ELSE LowerChar(Char(s, 1)) \o Lower(Tail(s))

\* sub in s
Contains(sub, s) ==
  \E n \in 1..(Len(s) - Len(sub) + 1) : SubSeq(s, n, n + Len(sub) - 1) = sub

\* s.startswith(prefix)
StartsWith(s, prefix) ==
  Len(s) >= Len(prefix) /\ SubSeq(s, 1, Len(prefix)) = prefix

\* sep.join(words)
RECURSIVE Join(_, _)
Join(sep, words) ==
  IF words = <<>> THEN ""
  ELSE IF Len(words) = 1 THEN words[1]
  ELSE words[1] \o sep \o Join(sep, Tail(words))

\* s.split(): the maximal runs of non-space characters
RECURSIVE Split(_)
Split(s) ==
  LET t == Strip(s)
      sp == {n \in 1..Len(t) : IsSpace(Char(t, n))}
  IN  IF t = "" THEN <<>>
      ELSE IF sp = {} THEN <<t>>
      ELSE <<SubSeq(t, 1, SetMin(sp) - 1)>> \o Split(SubSeq(t, SetMin(sp) + 1, Len(t)))

\* s.isdigit()
IsDigit(s) == s # "" /\ \A n \in 1..Len(s) : Char(s, n) \in Digits

\* s.replace(",", "")
RECURSIVE RemoveCommas(_)
RemoveCommas(s) ==
  IF s = "" THEN ""
  ELSE (IF Char(s, 1) = "," THEN "" ELSE Char(s, 1)) \o RemoveCommas(Tail(s))

DigitVal(c) == CHOOSE d \in 0..9 : Char("0123456789", d + 1) = c

RECURSIVE Pow10(_)
Pow10(n) == IF n = 0 THEN 1 ELSE 10 * Pow10(n - 1)

RECURSIVE DigitsVal(_)
DigitsVal(s) ==
  IF s = "" THEN 0
  ELSE DigitVal(Char(s, 1)) * Pow10(Len(s) - 1) + DigitsVal(Tail(s))

\* float(s) for the decimal literals [sign] digits [. digits] and
\* [sign] . digits, in hundredths; other text raises ValueError (None).
\* The tokens of the inputs below hold no exponent, underscore, inf or nan
\* forms, which float() would accept too.
Float(s) ==
  LET signed == s # "" /\ Char(s, 1) \in {"+", "-"}
      body == IF signed THEN Tail(s) ELSE s
      dots == {n \in 1..Len(body) : Char(body, n) = "."}
      dot == IF dots = {} THEN Len(body) + 1 ELSE SetMin(dots)
      whole == SubSeq(body, 1, dot - 1)
      frac == SubSeq(body, dot + 1, Len(body))
      wellFormed == /\ Cardinality(dots) <= 1
                    /\ whole \o frac # ""
                    /\ \A n \in 1..Len(whole) : Char(whole, n) \in Digits
                    /\ \A n \in 1..Len(frac) : Char(frac, n) \in Digits
                    /\ Len(frac) <= 2
      magnitude == DigitsVal(whole) * 100 + DigitsVal(frac) * Pow10(2 - Len(frac))
  IN  IF ~wellFormed THEN None
      ELSE Some(IF signed /\ Char(s, 1) = "-" THEN 0 - magnitude ELSE magnitude)

(***************************************************************************)
(* Sorting.  sorted() is stable: equal keys keep their order.              *)
(***************************************************************************)
\* sorted(ints)
RECURSIVE SortInts(_)
SortInts(s) ==
  IF s = <<>> THEN <<>>
  ELSE LET rest == SortInts(Tail(s))
           below == {n \in 1..Len(rest) : rest[n] < Head(s)}
           at == IF below = {} THEN 0 ELSE SetMax(below)
       IN  SubSeq(rest, 1, at) \o <<Head(s)>> \o SubSeq(rest, at + 1, Len(rest))

\* sorted(row, key=lambda v: v[0]) on (x, token) pairs
RECURSIVE SortByX(_)
SortByX(s) ==
  IF s = <<>> THEN <<>>
  ELSE LET rest == SortByX(Tail(s))
           below == {n \in 1..Len(rest) : rest[n][1] < Head(s)[1]}
           at == IF below = {} THEN 0 ELSE SetMax(below)
       IN  SubSeq(rest, 1, at) \o <<Head(s)>> \o SubSeq(rest, at + 1, Len(rest))

Abs(n) == IF n < 0 THEN 0 - n ELSE n

Max2(a, b) == IF a >= b THEN a ELSE b

SelectIdx(n, Keep(_)) ==
  LET idx == {m \in 1..n : Keep(m)}
      RECURSIVE Asc(_)
      Asc(S) == IF S = {} THEN <<>> ELSE <<SetMin(S)>> \o Asc(S \ {SetMin(S)})
  IN  Asc(idx)

(***************************************************************************)
(* Row grouping.                                                           *)
(***************************************************************************)
DefaultYGap == 12

MinYGap == 10

\* The tops of the non-blank tokens, in emission order.
NonBlankTops(o) ==
  LET keep == SelectIdx(Len(o.text), LAMBDA n : Strip(o.text[n]) # "")
  IN  [n \in 1..Len(keep) |-> o.top[keep[n]]]

\* The positive differences of consecutive sorted tops, sorted.
SortedDiffs(tops) ==
  LET tops_sorted == SortInts(tops)
      pos == SelectIdx(Len(tops_sorted) - 1,
                       LAMBDA n : tops_sorted[n + 1] - tops_sorted[n] > 0)
  IN  SortInts([n \in 1..Len(pos) |-> tops_sorted[pos[n] + 1] - tops_sorted[pos[n]]])

\* int(median_gap * 0.8) for an integer median_gap >= 0
ScaleGap(median_gap) == (median_gap * 8) \div 10

\* Mutant of MedianGap: the lower of the two middle elements.
MedianGapLower(diffs) == diffs[((Len(diffs) - 1) \div 2) + 1]

\* diffs[len(diffs) // 2], 0-based in the source
MedianGap(diffs) == diffs[(Len(diffs) \div 2) + 1]

_estimate_y_gap(o) ==
  LET tops == NonBlankTops(o)
      diffs == SortedDiffs(tops)
  IN  IF Len(tops) < 3 THEN DefaultYGap
      ELSE IF diffs = <<>> THEN DefaultYGap
      ELSE Max2(MinYGap, ScaleGap(MedianGap(diffs)))

\* Mutant of JoinsCurrent: the difference without abs().
JoinsCurrentSigned(y) ==
  IF last_top = None THEN TRUE ELSE y - Val(last_top) <= Val(y_gap)

\* last_top is None or abs(y - last_top) <= y_gap
JoinsCurrent(y) ==
  IF last_top = None THEN TRUE ELSE Abs(y - Val(last_top)) <= Val(y_gap)

\* Mutant of CloseRow: the row is appended as collected, not sorted.
CloseRowUnsorted(rs, cur) == Append(rs, cur)

\* rows.append(sorted(current, key=lambda v: v[0]))
CloseRow(rs, cur) == Append(rs, SortByX(cur))

\* assemble_rows, entry: y_gap defaults to the estimate; rows, current = [], []
BeginAssemble ==
  /\ pc = "assemble"
  /\ y_gap' = IF y_gap = None THEN Some(_estimate_y_gap(ocr)) ELSE y_gap
  /\ rows' = <<>>
  /\ current' = <<>>
  /\ last_top' = None
  /\ i' = 1
  /\ pc' = "loop"
  /\ UNCHANGED <<entry, ocr, header_idx, boundaries, k, items, response>>

\* loop body, blank token: continue
SkipBlank ==
  /\ pc = "loop"
  /\ i <= Len(ocr.text)
  /\ Strip(ocr.text[i]) = ""
  /\ i' = i + 1
  /\ UNCHANGED <<pc, entry, ocr, y_gap, rows, current, last_top,
                 header_idx, boundaries, k, items, response>>

\* loop body, the token joins the current row
JoinRow ==
  /\ pc = "loop"
  /\ i <= Len(ocr.text)
  /\ Strip(ocr.text[i]) # ""
  /\ JoinsCurrent(ocr.top[i])
  /\ current' = Append(current, <<ocr.left[i], Strip(ocr.text[i])>>)
  /\ last_top' = Some(ocr.top[i])
  /\ i' = i + 1
  /\ UNCHANGED <<pc, entry, ocr, y_gap, rows, header_idx, boundaries, k, items, response>>

\* loop body, the token starts a new row
NewRow ==
  /\ pc = "loop"
  /\ i <= Len(ocr.text)
  /\ Strip(ocr.text[i]) # ""
  /\ ~JoinsCurrent(ocr.top[i])
  /\ rows' = CloseRow(rows, current)
  /\ current' = <<<<ocr.left[i], Strip(ocr.text[i])>>>>
  /\ last_top' = Some(ocr.top[i])
  /\ i' = i + 1
  /\ UNCHANGED <<pc, entry, ocr, y_gap, header_idx, boundaries, k, items, response>>

\* after the loop: the last row is closed if it is not empty; return rows
ReturnRows ==
  /\ pc = "loop"
  /\ i > Len(ocr.text)
  /\ rows' = IF current # <<>> THEN CloseRow(rows, current) ELSE rows
  /\ pc' = IF entry = "assemble_rows" THEN "done" ELSE "detect"
  /\ UNCHANGED <<entry, ocr, y_gap, i, current, last_top,
                 header_idx, boundaries, k, items, response>>

(***************************************************************************)
(* Header detection.                                                       *)
(***************************************************************************)
HEADER_KEYWORDS ==
  <<"description", "desc", "particulars",
    "qty", "hr", "hrs",
    "rate",
    "amount", "amt", "net", "total", "gross", "discount">>

MinHeaderScore == 2

BoundaryNames == <<"desc_end", "date_end", "qty_end", "rate_end">>

\* " ".join(w for _, w in row)
RowText(row) == Join(" ", [n \in 1..Len(row) |-> row[n][2]])

\* sum(1 for kw in HEADER_KEYWORDS if kw in line)
HeaderScore(row) ==
  LET line == Lower(RowText(row))
  IN  Cardinality({n \in 1..Len(HEADER_KEYWORDS) : Contains(HEADER_KEYWORDS[n], line)})

\* The scan for the best row: a strictly higher score replaces the best so
\* far.  The result is <<header_idx, best_score>>, header_idx 0-based.
RECURSIVE BestHeader(_, _, _, _)
BestHeader(rs, n, idx, best_score) ==
  IF n > Len(rs) THEN <<idx, best_score>>
  ELSE LET score == HeaderScore(rs[n])
       IN  IF score > best_score
           THEN BestHeader(rs, n + 1, Some(n - 1), score)
           ELSE BestHeader(rs, n + 1, idx, best_score)

\* The if/elif chain that assigns a header word to a slot.
SlotOf(word) ==
  LET w == Lower(word)
  IN  IF Contains("desc", w) \/ Contains("particular", w) THEN "desc"
      ELSE IF Contains("date", w) THEN "date"
      ELSE IF Contains("qty", w) \/ Contains("hr", w) THEN "qty"
      ELSE IF Contains("rate", w) THEN "rate"
      ELSE IF \/ Contains("amount", w) \/ Contains("amt", w) \/ Contains("net", w)
              \/ Contains("total", w) \/ Contains("gross", w) THEN "amount"
      ELSE "none"

\* x_<slot> after the scan of the header: the x of the last token of the slot.
SlotX(header, slot) ==
  LET hits == {n \in 1..Len(header) : SlotOf(header[n][2]) = slot}
  IN  IF hits = {} THEN None ELSE Some(header[SetMax(hits)][1])

\* sorted(set(v for v in [x_desc, x_date, x_qty, x_rate, x_amount] if v is not None))
SlotXs(header) ==
  LET assigned == {SlotX(header, slot) : slot \in {"desc", "date", "qty", "rate", "amount"}}
      xset == {Val(o) : o \in assigned \ {None}}
      RECURSIVE Asc(_)
      Asc(S) == IF S = {} THEN <<>> ELSE <<SetMin(S)>> \o Asc(S \ {SetMin(S)})
  IN  Asc(xset)

\* Mutant of Boundaries: with four coordinates the names are those of a
\* header without a date column (desc_end, qty_end, rate_end).
BoundariesWithoutDate(xs) ==
  LET names == IF Len(xs) = 4 THEN <<"desc_end", "qty_end", "rate_end">> ELSE BoundaryNames
      n == IF Len(xs) - 1 > 4 THEN 4 ELSE IF Len(xs) < 1 THEN 0 ELSE Len(xs) - 1
  IN  [name \in {names[j] : j \in 1..n} |->
         LET j == CHOOSE j \in 1..n : names[j] = name
         IN  xs[j] + xs[j + 1]]

\* boundaries: the k-th name holds (xs[k] + xs[k+1]) / 2, kept doubled.
Boundaries(xs) ==
  LET n == IF Len(xs) - 1 > 4 THEN 4 ELSE IF Len(xs) < 1 THEN 0 ELSE Len(xs) - 1
  IN  [name \in {BoundaryNames[j] : j \in 1..n} |->
         LET j == CHOOSE j \in 1..n : BoundaryNames[j] = name
         IN  xs[j] + xs[j + 1]]

\* Mutant of NoHeaderFound: a single keyword is enough.
NoHeaderFoundBelowOne(idx, best_score) == idx = None \/ best_score < MinHeaderScore - 1

\* header_idx is None or best_score < 2
NoHeaderFound(idx, best_score) == idx = None \/ best_score < MinHeaderScore

detect_header_and_boundaries(rs) ==
  LET best == BestHeader(rs, 1, None, 0)
  IN  IF NoHeaderFound(best[1], best[2])
      THEN [header_idx |-> None, boundaries |-> None]
      ELSE LET xs == SlotXs(rs[Val(best[1]) + 1])
           IN  IF xs = <<>>
               THEN [header_idx |-> best[1], boundaries |-> None]
               ELSE [header_idx |-> best[1], boundaries |-> Some(Boundaries(xs))]

(***************************************************************************)
(* Helpers of the item extraction.                                         *)
(***************************************************************************)
SECTION_HEADERS ==
  <<"consultation", "room", "nursing", "laboratory", "radiology",
    "surgery", "procedure", "investigation", "others", "pharmacy">>

MaxQuantity == 25

to_float(text) ==
  LET s == Strip(text)
  IN  IF s = "" \/ Contains("/", s) THEN None ELSE Float(RemoveCommas(s))

remove_slno(desc) ==
  LET parts == Split(desc)
  IN  IF parts # <<>> /\ IsDigit(parts[1]) THEN Join(" ", Tail(parts)) ELSE desc

has_digit(s) == \E n \in 1..Len(s) : Char(s, n) \in Digits

is_section(line) ==
  IF has_digit(line) THEN FALSE
  ELSE \E n \in 1..Len(SECTION_HEADERS) : Contains(SECTION_HEADERS[n], line)

\* Mutant of is_total_footer: only the prefix test.
is_total_footer_prefix(line) == StartsWith(Strip(line), "total")

is_total_footer(line) ==
  LET stripped == Strip(line)
  IN  StartsWith(stripped, "total") \/ Contains("grand total", stripped)

\* The three filters at the top of the row loop.
IsSkipped(row) ==
  LET line_lower == Lower(RowText(row))
  IN  \/ is_total_footer(line_lower)
      \/ is_section(line_lower)
      \/ Contains("category total", line_lower)

\* boundaries.get(name) if boundaries else None
BoundaryOf(bounds, name) ==
  IF bounds = None THEN None
  ELSE IF name \in DOMAIN Val(bounds) THEN Some(Val(bounds)[name]) ELSE None

\* "b and x < b": b is not None, is not 0, and x is left of it
LeftOf(x, b) == b # None /\ Val(b) # 0 /\ 2 * x < Val(b)

\* The if/elif chain that puts a token in a bucket.
BucketOf(bounds, x) ==
  IF LeftOf(x, BoundaryOf(bounds, "desc_end")) THEN "desc"
  ELSE IF LeftOf(x, BoundaryOf(bounds, "date_end")) THEN "date"
  ELSE IF LeftOf(x, BoundaryOf(bounds, "qty_end")) THEN "qty"
  ELSE IF LeftOf(x, BoundaryOf(bounds, "rate_end")) THEN "rate"
  ELSE "amount"

\* The tokens of a bucket, in row order.
Bucket(bounds, row, name) ==
  LET keep == SelectIdx(Len(row), LAMBDA n : BucketOf(bounds, row[n][1]) = name)
  IN  [n \in 1..Len(keep) |-> row[keep[n]][2]]

\* [t for t in amount_bucket if has_digit(t) and "/" not in t]
AmountCandidates(bounds, row) ==
  LET amount_bucket == Bucket(bounds, row, "amount")
      keep == SelectIdx(Len(amount_bucket),
                        LAMBDA n : has_digit(amount_bucket[n])
                                   /\ ~Contains("/", amount_bucket[n]))
  IN  [n \in 1..Len(keep) |-> amount_bucket[keep[n]]]

DescText(bounds, row) == remove_slno(Strip(Join(" ", Bucket(bounds, row, "desc"))))

\* qty = to_float(qty_text) if qty_text else None
ParsedQty(bounds, row) ==
  LET qty_text == Strip(Join("", Bucket(bounds, row, "qty")))
  IN  IF qty_text # "" THEN to_float(qty_text) ELSE None

ParsedAmount(bounds, row) ==
  LET amount_candidates == AmountCandidates(bounds, row)
  IN  IF amount_candidates # <<>>
      THEN to_float(amount_candidates[Len(amount_candidates)])
      ELSE None

ParsedRate(bounds, row) ==
  LET rate_text == Strip(Join("", Bucket(bounds, row, "rate")))
      rate == IF rate_text # "" THEN to_float(rate_text) ELSE None
      amount_candidates == AmountCandidates(bounds, row)
  IN  IF rate = None /\ Len(amount_candidates) >= 2
      THEN to_float(amount_candidates[Len(amount_candidates) - 1])
      ELSE rate

\* Mutant of SafeQty: a quantity of exactly 25 is discarded too.
SafeQtyBelowMax(qty, amount) ==
  LET q1 == IF qty # None /\ amount # None /\ Val(qty) = Val(amount) THEN None ELSE qty
      q2 == IF q1 # None /\ Val(q1) >= MaxQuantity * 100 THEN None ELSE q1
  IN  IF q2 = None THEN 100 ELSE Val(q2)

\* The safety fix, then the default of 1.0.
SafeQty(qty, amount) ==
  LET q1 == IF qty # None /\ amount # None /\ Val(qty) = Val(amount) THEN None ELSE qty
      q2 == IF q1 # None /\ Val(q1) > MaxQuantity * 100 THEN None ELSE q1
  IN  IF q2 = None THEN 100 ELSE Val(q2)

\* The item of a row that passed the filters, or None when the row is
\* rejected (no description or no amount).
RowItem(bounds, row) ==
  LET desc_text == DescText(bounds, row)
      amount == ParsedAmount(bounds, row)
      rate == ParsedRate(bounds, row)
  IN  IF desc_text = "" \/ amount = None THEN None
      ELSE Some([item_name |-> desc_text,
                 item_quantity |-> SafeQty(ParsedQty(bounds, row), amount),
                 item_rate |-> IF rate # None THEN Val(rate) ELSE Val(amount),
                 item_amount |-> Val(amount)])

(***************************************************************************)
(* The pipeline after the rows are assembled.                              *)
(***************************************************************************)
\* header_idx, boundaries = detect_header_and_boundaries(rows), then the
\* entry of extract_items: items = [] and the loop starts after the header.
DetectHeader ==
  /\ pc = "detect"
  /\ LET found == detect_header_and_boundaries(rows)
     IN  /\ header_idx' = found.header_idx
         /\ boundaries' = found.boundaries
  /\ items' = <<>>
  /\ k' = IF header_idx' = None THEN 0 ELSE Val(header_idx') + 2
  /\ pc' = "extract"
  /\ UNCHANGED <<entry, ocr, y_gap, i, rows, current, last_top, response>>

\* extract_items: if header_idx is None: return []
NoHeader ==
  /\ pc = "extract"
  /\ header_idx = None
  /\ pc' = "respond"
  /\ UNCHANGED <<entry, ocr, y_gap, i, rows, current, last_top,
                 header_idx, boundaries, k, items, response>>

\* row loop: a footer, section or category-total row: continue
SkipRow ==
  /\ pc = "extract"
  /\ header_idx # None
  /\ k <= Len(rows)
  /\ IsSkipped(rows[k])
  /\ k' = k + 1
  /\ UNCHANGED <<pc, entry, ocr, y_gap, i, rows, current, last_top,
                 header_idx, boundaries, items, response>>

\* row loop: no description or no amount: continue
RejectRow ==
  /\ pc = "extract"
  /\ header_idx # None
  /\ k <= Len(rows)
  /\ ~IsSkipped(rows[k])
  /\ RowItem(boundaries, rows[k]) = None
  /\ k' = k + 1
  /\ UNCHANGED <<pc, entry, ocr, y_gap, i, rows, current, last_top,
                 header_idx, boundaries, items, response>>

\* row loop: items.append(item)
EmitItem ==
  /\ pc = "extract"
  /\ header_idx # None
  /\ k <= Len(rows)
  /\ ~IsSkipped(rows[k])
  /\ RowItem(boundaries, rows[k]) # None
  /\ items' = Append(items, Val(RowItem(boundaries, rows[k])))
  /\ k' = k + 1
  /\ UNCHANGED <<pc, entry, ocr, y_gap, i, rows, current, last_top,
                 header_idx, boundaries, response>>

\* after the row loop: return items
ReturnItems ==
  /\ pc = "extract"
  /\ header_idx # None
  /\ k > Len(rows)
  /\ pc' = "respond"
  /\ UNCHANGED <<entry, ocr, y_gap, i, rows, current, last_top,
                 header_idx, boundaries, k, items, response>>

\* sum(1 for t in ocr["text"] if t.strip())
OcrWordCount == Len(NonBlankTops(ocr))

\* The envelope extract_bill_info_from_url returns.
SuccessEnvelope(its) ==
  LET fake_input == (OcrWordCount * 32) \div 10
      fake_output == Len(its) * 200
  IN  [is_success |-> TRUE,
       token_usage |-> [total_tokens |-> fake_input + fake_output,
                        input_tokens |-> fake_input,
                        output_tokens |-> fake_output],
       data |-> Some([pagewise_line_items |->
                        <<[page_no |-> "1", page_type |-> "Bill Detail",
                           bill_items |-> its]>>,
                      total_item_count |-> Len(its)])]

\* The envelope extract_data returns when the extraction raises.
ErrorEnvelope ==
  [is_success |-> FALSE,
   token_usage |-> [total_tokens |-> 0, input_tokens |-> 0, output_tokens |-> 0],
   data |-> None]

Respond ==
  /\ pc = "respond"
  /\ response' = Some(SuccessEnvelope(items))
  /\ pc' = "done"
  /\ UNCHANGED <<entry, ocr, y_gap, i, rows, current, last_top,
                 header_idx, boundaries, k, items>>

\* fetch_image and ocr_with_positions return: rows = assemble_rows(ocr)
Fetch ==
  /\ pc = "fetch"
  /\ pc' = "assemble"
  /\ UNCHANGED <<entry, ocr, y_gap, i, rows, current, last_top,
                 header_idx, boundaries, k, items, response>>

\* fetch_image or the OCR raises: extract_data answers the error envelope
FetchFails ==
  /\ pc = "fetch"
  /\ response' = Some(ErrorEnvelope)
  /\ pc' = "done"
  /\ UNCHANGED <<entry, ocr, y_gap, i, rows, current, last_top,
                 header_idx, boundaries, k, items>>

(***************************************************************************)
(* Inputs.                                                                 *)
(***************************************************************************)
MaxTokens == 3

MaxLines == 2

\* Token streams for assemble_rows called on its own.  A blank token's
\* coordinates are never read, so one blank token stands for all of them.
StreamLefts == {10, 40}

StreamTops == {0, 10, 20, 100}

StreamTokens ==
  {<<l, t, "a ">> : l \in StreamLefts, t \in StreamTops} \cup {<<10, 0, " ">>}

\* The parallel arrays pytesseract returns.
Ocr(toks) ==
  [left |-> [n \in 1..Len(toks) |-> toks[n][1]],
   top |-> [n \in 1..Len(toks) |-> toks[n][2]],
   text |-> [n \in 1..Len(toks) |-> toks[n][3]]]

Streams == UNION {{Ocr(toks) : toks \in [1..n -> StreamTokens]} : n \in 0..MaxTokens}

\* A document of printed lines: line j is a sequence of (x, text) pairs, all
\* at top 100 * (j - 1).
RECURSIVE Flatten(_)
Flatten(seqs) == IF seqs = <<>> THEN <<>> ELSE Head(seqs) \o Flatten(Tail(seqs))

Doc(lines) ==
  Ocr(Flatten([j \in 1..Len(lines) |->
                 [n \in 1..Len(lines[j]) |->
                    <<lines[j][n][1], 100 * (j - 1), lines[j][n][2]>>]]))

\* Header lines: distinct header words at the leftmost positions, in every
\* order, and some lines with repeated slots or keywords without a slot.
HeaderXs == <<10, 200, 300, 400, 500>>

HeaderWords == {"Description", "Date", "Qty", "Rate", "Amount"}

HeaderLines ==
  UNION {{[n \in 1..m |-> <<HeaderXs[n], f[n]>>] :
            f \in {g \in [1..m -> HeaderWords] :
                     \A a, b \in 1..m : a # b => g[a] # g[b]}} : m \in 0..Len(HeaderXs)}
    \cup {<<<<300, "Qty">>, <<400, "Qty">>>>,
          <<<<10, "Description">>, <<300, "Qty">>, <<400, "Hrs">>, <<500, "Amount">>>>,
          <<<<10, "Particulars">>>>,
          <<<<10, "Hrs">>>>,
          <<<<10, "Discount">>>>,
          <<<<10, "Item">>, <<500, "Cost">>>>,
          <<<<10, "Discount">>, <<500, "Net">>>>}

PlainHeader == <<<<10, "Description">>, <<300, "Qty">>, <<400, "Rate">>, <<500, "Amount">>>>

DatedHeader ==
  <<<<10, "Description">>, <<200, "Date">>, <<300, "Qty">>, <<400, "Rate">>, <<500, "Amount">>>>

LiviLine ==
  <<<<10, "92">>, <<40, "Livi">>, <<70, "300mg">>, <<100, "Tab">>,
    <<300, "2">>, <<400, "50.00">>, <<500, "100.00">>>>

ShortLine == <<<<40, "Livi">>, <<300, "2">>, <<500, "100.00">>>>

\* Data lines: a description, and a quantity, a rate and amount tokens or none.
DescParts == {<<<<10, "92">>>>, <<<<40, "Livi">>>>, <<<<10, "92">>, <<40, "Livi">>>>}

QtyParts ==
  {<<>>} \cup {<<<<300, t>>>> : t \in {"0", "-3", "2", "24", "25", "26", "30", "40", "x"}}

RateParts == {<<>>} \cup {<<<<400, t>>>> : t \in {"50.00", "12/05"}}

AmountParts ==
  {<<>>} \cup {<<<<500, t>>>> : t \in {"40.00", "100.00", "1,200.00", "12/05", "Rs100"}}
         \cup {<<<<500, "50.00">>, <<550, "100.00">>>>}

DataLines ==
  {d \o q \o r \o a : d \in DescParts, q \in QtyParts, r \in RateParts, a \in AmountParts}

\* Lines of a table: items, footers, section dividers.
TableLines ==
  {<<<<10, "Livi">>, <<300, "2">>, <<400, "50.00">>, <<500, "100.00">>>>,
   <<<<10, "Room">>, <<40, "Rent">>, <<300, "3">>, <<400, "80.00">>, <<500, "240.00">>>>,
   <<<<10, "Grand">>, <<40, "Total">>, <<500, "450.00">>>>,
   <<<<10, "450.00">>, <<400, "Grand">>, <<500, "Total">>>>,
   <<<<10, "Total">>, <<500, "450.00">>>>,
   <<<<10, "Sub">>, <<40, "Total">>, <<500, "30.00">>>>,
   <<<<10, "Category">>, <<40, "Total">>, <<500, "30.00">>>>,
   <<<<10, "PHARMACY">>>>}

TableHeaders == {PlainHeader, DatedHeader, <<<<400, "Rate">>>>}

Tables ==
  UNION {{<<h>> \o ls : h \in TableHeaders, ls \in [1..n -> TableLines]} : n \in 0..MaxLines}

Documents ==
  {Doc(<<h, ShortLine>>) : h \in HeaderLines}
    \cup {Doc(<<DatedHeader, d>>) : d \in DataLines}
    \cup {Doc(<<PlainHeader, LiviLine>>)}
    \cup {Doc(t) : t \in Tables}

(***************************************************************************)
(* Specification.                                                          *)
(***************************************************************************)
Init ==
  /\ \/ /\ entry = "extract_bill_info_from_url"
        /\ ocr \in Documents
        /\ y_gap = None
        /\ pc = "fetch"
     \/ /\ entry = "assemble_rows"
        /\ ocr \in Streams
        /\ y_gap \in {None, Some(10)}
        /\ pc = "assemble"
  /\ i = 0
  /\ rows = <<>>
  /\ current = <<>>
  /\ last_top = None
  /\ header_idx = None
  /\ boundaries = None
  /\ k = 0
  /\ items = <<>>
  /\ response = None

Next ==
  \/ Fetch
  \/ FetchFails
  \/ BeginAssemble
  \/ SkipBlank
  \/ JoinRow
  \/ NewRow
  \/ ReturnRows
  \/ DetectHeader
  \/ NoHeader
  \/ SkipRow
  \/ RejectRow
  \/ EmitItem
  \/ ReturnItems
  \/ Respond

Spec == Init /\ [][Next]_vars

(***************************************************************************)
(* Properties of the row grouping.                                         *)
(***************************************************************************)
Assembling == pc = "loop"

Assembled == pc \in {"detect", "extract", "respond"} \/ (pc = "done" /\ i > 0)

\* The non-blank tokens among the first n of the stream, in emission order,
\* as (x, stripped text, y).
Emitted(n) ==
  LET keep == SelectIdx(n, LAMBDA m : Strip(ocr.text[m]) # "")
  IN  [m \in 1..Len(keep) |->
         <<ocr.left[keep[m]], Strip(ocr.text[keep[m]]), ocr.top[keep[m]]>>]

BagOf(seq) ==
  [e \in {seq[n] : n \in 1..Len(seq)} |-> Cardinality({n \in 1..Len(seq) : seq[n] = e})]

Pairs(toks) == [n \in 1..Len(toks) |-> <<toks[n][1], toks[n][2]>>]

RECURSIVE SumLen(_, _)
SumLen(rs, j) == IF j = 0 THEN 0 ELSE Len(rs[j]) + SumLen(rs, j - 1)

\* All the non-blank tokens of the stream.
AllEmitted == Emitted(Len(ocr.text))

\* The tokens of the stream that row j was built from: the rows take the
\* non-blank tokens em in consecutive runs, in emission order.
RowRunOf(em, j) == SubSeq(em, SumLen(rows, j - 1) + 1, SumLen(rows, j))

RowRun(j) == RowRunOf(AllEmitted, j)

AscendingX(row) == \A n \in 1..(Len(row) - 1) : row[n][1] <= row[n + 1][1]

\* C10: after any prefix of the stream every non-blank token seen so far is
\* in exactly one of the closed rows or the current row, and no blank token
\* is anywhere; on return the rows partition the non-blank tokens into
\* consecutive runs of the stream in order, no row is empty, and each row is
\* sorted ascending by x (no tokens, no rows).
C10_RowsPartitionTokens ==
  /\ Assembling =>
       /\ BagOf(Flatten(rows) \o current) = BagOf(Pairs(Emitted(i - 1)))
       /\ \A j \in 1..Len(rows) : rows[j] # <<>> /\ AscendingX(rows[j])
  /\ Assembled =>
       LET em == AllEmitted
       IN  /\ SumLen(rows, Len(rows)) = Len(em)
           /\ \A j \in 1..Len(rows) :
                /\ rows[j] # <<>>
                /\ BagOf(rows[j]) = BagOf(Pairs(RowRunOf(em, j)))
                /\ AscendingX(rows[j])
           /\ (em = <<>>) => rows = <<>>

\* C10 witness: a stream with a blank token, returned with a row of two
\* tokens that arrived right to left.
C10_Witness ==
  /\ pc = "done"
  /\ entry = "assemble_rows"
  /\ \E n \in 1..Len(ocr.text) : Strip(ocr.text[n]) = ""
  /\ \E j \in 1..Len(rows) :
       /\ Len(rows[j]) = 2
       /\ LET run == RowRun(j) IN run[1][1] > run[2][1]

\* C7 as stated: in every returned row every token's y is within y_gap of
\* the y of the first token placed in the row.
C7_WithinGapOfRowReference ==
  Assembled =>
    LET em == AllEmitted
    IN  \A j \in 1..Len(rows) :
          LET run == RowRunOf(em, j)
          IN  \A n \in 1..Len(run) : Abs(run[n][3] - run[1][3]) <= Val(y_gap)

\* C7 amended: in every returned row every token's y is within y_gap of the
\* y of the token placed in the row just before it.
C7_WithinGapOfPreviousToken ==
  Assembled =>
    LET em == AllEmitted
    IN  \A j \in 1..Len(rows) :
          LET run == RowRunOf(em, j)
          IN  \A n \in 2..Len(run) : Abs(run[n][3] - run[n - 1][3]) <= Val(y_gap)

\* C7 witness: a returned row whose tokens drift, each within y_gap of the
\* one before, the last one further than y_gap from the first.
C7_Witness ==
  /\ pc = "done"
  /\ entry = "assemble_rows"
  /\ \E j \in 1..Len(rows) :
       /\ Len(rows[j]) = 3
       /\ LET run == RowRun(j) IN Abs(run[3][3] - run[1][3]) > Val(y_gap)

\* The distinct values of a list of tops, ascending.
DistinctTops(tops) ==
  LET RECURSIVE Asc(_)
      Asc(T) == IF T = {} THEN <<>> ELSE <<SetMin(T)>> \o Asc(T \ {SetMin(T)})
  IN  Asc({tops[n] : n \in 1..Len(tops)})

\* The differences of consecutive values of an ascending list, ascending.
TopGaps(distinct) ==
  SortInts([n \in 1..(Len(distinct) - 1) |-> distinct[n + 1] - distinct[n]])

\* floor(0.8 * median) of an ascending list, the median of an even number
\* of values being the mean of the two middle ones.
ScaledMedian(gaps) ==
  IF Len(gaps) % 2 = 1
  THEN (8 * gaps[(Len(gaps) + 1) \div 2]) \div 10
  ELSE (4 * (gaps[Len(gaps) \div 2] + gaps[(Len(gaps) \div 2) + 1])) \div 10

Estimating == pc = "assemble" /\ y_gap = None

\* C8 as stated: without a y_gap the estimate is 12 when the non-blank
\* tokens have fewer than 3 distinct tops, else max(10, floor(0.8 * m)), m
\* the median of the differences of consecutive sorted distinct tops.
C8_EstimateByDistinctTops ==
  [][Estimating =>
       LET distinct == DistinctTops(NonBlankTops(ocr))
           gaps == TopGaps(distinct)
       IN  y_gap' = Some(IF Len(distinct) < 3 THEN 12
                         ELSE Max2(10, ScaledMedian(gaps)))]_vars

\* C8 amended: without a y_gap the estimate is 12 when there are fewer than
\* 3 non-blank tokens or fewer than 2 distinct tops among them, else
\* max(10, floor(0.8 * m)), m the element at 0-based index floor(n / 2) of
\* the n ascending differences of consecutive sorted distinct tops.
C8_EstimateByTokenCount ==
  [][Estimating =>
       LET tops == NonBlankTops(ocr)
           distinct == DistinctTops(tops)
           gaps == TopGaps(distinct)
       IN  y_gap' = Some(IF Len(tops) < 3 \/ Len(distinct) < 2 THEN 12
                         ELSE Max2(10, (8 * gaps[(Len(gaps) \div 2) + 1]) \div 10))]_vars

\* C8 witness: three non-blank tokens on two distinct tops, and an estimate
\* that is not the default.
C8_Witness ==
  /\ pc = "loop"
  /\ Len(NonBlankTops(ocr)) = 3
  /\ Len(DistinctTops(NonBlankTops(ocr))) = 2
  /\ y_gap = Some(80)

(***************************************************************************)
(* Properties of the header detection.                                     *)
(***************************************************************************)
Detected ==
  \/ pc \in {"extract", "respond"}
  \/ (pc = "done" /\ i > 0 /\ entry = "extract_bill_info_from_url")

HeaderRow == rows[Val(header_idx) + 1]

\* C9: when a header is found with n distinct assigned slot x-coordinates
\* x1 < ... < xn, the boundaries hold exactly the first min(4, max(0, n-1))
\* names of desc_end, date_end, qty_end, rate_end, the k-th name holding the
\* midpoint of xk and xk+1 whatever slots they came from, so the values
\* present are strictly increasing in the listed order.
C9_BoundariesAreMidpointsInOrder ==
  (Detected /\ header_idx # None) =>
    LET xs == SlotXs(HeaderRow)
        n == Len(xs)
        m == IF n - 1 > 4 THEN 4 ELSE IF n - 1 < 0 THEN 0 ELSE n - 1
        present == IF boundaries = None THEN {} ELSE DOMAIN Val(boundaries)
    IN  /\ present = {BoundaryNames[j] : j \in 1..m}
        /\ \A j \in 1..m : Val(boundaries)[BoundaryNames[j]] = xs[j] + xs[j + 1]
        /\ \A j \in 1..(m - 1) :
             Val(boundaries)[BoundaryNames[j]] < Val(boundaries)[BoundaryNames[j + 1]]

\* C9 witness: a header with five assigned coordinates whose amount column
\* is the leftmost, and all four boundaries present.
C9_Witness ==
  /\ pc = "done"
  /\ header_idx # None
  /\ boundaries # None
  /\ DOMAIN Val(boundaries) = {"desc_end", "date_end", "qty_end", "rate_end"}
  /\ SlotX(HeaderRow, "amount") = Some(10)

\* C1: for a header whose tokens fill the description, quantity, rate and
\* amount slots (no date) at strictly increasing x, desc_end, qty_end and
\* rate_end are the midpoints between adjacent header x's; and the header
\* Description@10 Qty@300 Rate@400 Amount@500 followed by the row
\* 92 Livi 300mg Tab 2 50.00 100.00 yields the one item
\* {Livi 300mg Tab, 2.0, 50.0, 100.0}.
C1_ColumnsFollowHeaderSlots ==
  (Detected /\ header_idx # None) =>
    LET x_desc == SlotX(HeaderRow, "desc")
        x_date == SlotX(HeaderRow, "date")
        x_qty == SlotX(HeaderRow, "qty")
        x_rate == SlotX(HeaderRow, "rate")
        x_amount == SlotX(HeaderRow, "amount")
    IN  (/\ x_date = None
         /\ x_desc # None /\ x_qty # None /\ x_rate # None /\ x_amount # None
         /\ Val(x_desc) < Val(x_qty) /\ Val(x_qty) < Val(x_rate)
         /\ Val(x_rate) < Val(x_amount)) =>
          /\ boundaries # None
          /\ BoundaryOf(boundaries, "desc_end") = Some(Val(x_desc) + Val(x_qty))
          /\ BoundaryOf(boundaries, "qty_end") = Some(Val(x_qty) + Val(x_rate))
          /\ BoundaryOf(boundaries, "rate_end") = Some(Val(x_rate) + Val(x_amount))
          /\ (pc = "done" /\ ocr = Doc(<<PlainHeader, LiviLine>>)) =>
               items = <<[item_name |-> "Livi 300mg Tab", item_quantity |-> 200,
                          item_rate |-> 5000, item_amount |-> 10000]>>

\* The keyword categories of the header vocabulary.
KeywordCategories ==
  <<{"description", "desc", "particulars"},
    {"qty", "hr", "hrs"},
    {"rate"},
    {"amount", "amt", "net", "total", "gross", "discount"}>>

CategoryScore(row) ==
  LET line == Lower(RowText(row))
  IN  Cardinality({c \in 1..Len(KeywordCategories) :
                     \E kw \in KeywordCategories[c] : Contains(kw, line)})

\* C3: a row is selected as header only if its text matches at least two
\* distinct keyword categories; when every row matches at most one, the
\* header index and the boundaries are both None.
C3_HeaderNeedsTwoCategories ==
  Detected =>
    /\ header_idx # None => CategoryScore(HeaderRow) >= 2
    /\ (\A j \in 1..Len(rows) : CategoryScore(rows[j]) <= 1) =>
         (header_idx = None /\ boundaries = None)

\* C6: when no row reaches a header score of 2, the detection returns
\* (None, None), extract_items returns the empty list, and the envelope has
\* is_success true, no bill items and total_item_count 0.
C6_NoHeaderIsEmptySuccess ==
  (Detected /\ \A j \in 1..Len(rows) : HeaderScore(rows[j]) < 2) =>
    /\ header_idx = None
    /\ boundaries = None
    /\ items = <<>>
    /\ pc = "done" =>
         /\ response # None
         /\ Val(response).is_success = TRUE
         /\ Val(response).data # None
         /\ Val(Val(response).data).pagewise_line_items[1].bill_items = <<>>
         /\ Val(Val(response).data).total_item_count = 0

\* C6 witness: a document whose best row scores 1, answered with success.
C6_Witness ==
  /\ pc = "done"
  /\ i > 0
  /\ entry = "extract_bill_info_from_url"
  /\ rows # <<>>
  /\ \A j \in 1..Len(rows) : HeaderScore(rows[j]) < 2
  /\ \E j \in 1..Len(rows) : HeaderScore(rows[j]) = 1
  /\ Val(response).is_success = TRUE

(***************************************************************************)
(* Properties of the item extraction.                                      *)
(***************************************************************************)
\* C2: every emitted item has a numeric amount, a numeric quantity strictly
\* greater than 0 and a numeric rate.
C2_QuantityIsPositive ==
  \A n \in 1..Len(items) :
    /\ items[n].item_amount \in Int
    /\ items[n].item_rate \in Int
    /\ items[n].item_quantity \in Int
    /\ items[n].item_quantity > 0

\* C4: the quantity of an emitted item is the number parsed from the row's
\* quantity bucket when that parse succeeds, the value differs from the
\* row's amount and is at most 25; in every other case it is 1.0.
C4_QuantityKeptOrDefaulted ==
  [][Len(items') = Len(items) + 1 =>
       LET item == items'[Len(items')]
           parsed == ParsedQty(boundaries, rows[k])
       IN  item.item_quantity =
             IF parsed # None /\ Val(parsed) # item.item_amount /\ Val(parsed) <= 2500
             THEN Val(parsed)
             ELSE 100]_vars

\* C4 witness: a row whose quantity bucket reads 40 and whose amount is
\* 40.00, emitted with quantity 1.0.
C4_Witness ==
  /\ pc = "done"
  /\ Len(rows) = 2
  /\ Len(items) = 1
  /\ ParsedQty(boundaries, rows[2]) = Some(4000)
  /\ items[1].item_amount = 4000
  /\ items[1].item_quantity = 100

\* A totals, category-total or section row, as the filters are described.
NonItemRow(row) ==
  LET line == Lower(RowText(row))
      sections == {"consultation", "room", "nursing", "laboratory", "radiology",
                   "surgery", "procedure", "investigation", "others", "pharmacy"}
  IN  \/ StartsWith(Strip(line), "total")
      \/ Contains("grand total", line)
      \/ Contains("category total", line)
      \/ (~has_digit(line) /\ \E kw \in sections : Contains(kw, line))

\* The items of the rows after the header up to row last, the non-item rows
\* left out.
ItemsUpTo(last) ==
  LET keep == SelectIdx(last, LAMBDA j : /\ j > Val(header_idx) + 1
                                         /\ ~NonItemRow(rows[j])
                                         /\ RowItem(boundaries, rows[j]) # None)
  IN  [n \in 1..Len(keep) |-> Val(RowItem(boundaries, rows[keep[n]]))]

\* C5: no item is ever emitted for a totals, category-total or section row
\* after the header, wherever its tokens are and whatever the boundaries
\* are, and the items of the other rows are the same as without it.
C5_NonItemRowsEmitNothing ==
  (Detected /\ header_idx # None) =>
    items = ItemsUpTo(IF k - 1 > Len(rows) THEN Len(rows) ELSE k - 1)

\* C5 witness: a totals row with a description and an amount, skipped, and
\* followed by a row that is emitted.
C5_Witness ==
  /\ pc = "done"
  /\ header_idx # None
  /\ Len(items) = 1
  /\ \E j \in (Val(header_idx) + 2)..(Len(rows) - 1) :
       /\ NonItemRow(rows[j])
       /\ RowItem(boundaries, rows[j]) # None

====
